---- MODULE Spec2Model ----
(***************************************************************************)
(* A model of yotta's Target (src/yotta/lib/target.py): the process runner *)
(* exec_helper, the generator Target.build (configure, Ninja backslash     *)
(* patch, build, hint) and the generator Target.debug (program check,      *)
(* daemon, SIGINT guard, debugger, except/finally cleanup).                *)
(*                                                                         *)
(* Python strings are TLA+ strings (Len, SubSeq and \o act on them as on   *)
(* sequences of characters); the text of build.ninja is a tuple of         *)
(* one-character strings, so that the \1 sentinel can be written.          *)
(* A generator is a process whose position is pc: it runs when the caller  *)
(* calls next() (Start, Resume), is suspended at each yield, and can be    *)
(* closed there (Close: GeneratorExit is raised at the yield).             *)
(***************************************************************************)
EXTENDS Integers, Sequences, FiniteSets, TLC

VARIABLES
    op,           \* which generator was called: "build" or "debug"
    args,         \* the arguments of the call
    description,  \* self.description: the keys present in target.json
    osname,       \* os.name
    files,        \* the paths for which os.path.isfile is true
    buildFile,    \* the text of <builddir>/build.ninja
    pc,           \* the generator's position
    diags,        \* the diagnostics yielded to the caller so far
    events,       \* the side effects so far, in order
    execs,        \* one record per finished exec_helper call
    patchFailed,  \* whether the rewrite of build.ninja raised
    logged,       \* what logging.info was given
    sigint,       \* the handler installed for signal.SIGINT
    daemon,       \* debug's local `daemon`: None or a Popen handle
    child,        \* debug's local `child`: None or a Popen handle
    debugCmd,     \* debug's local `cmd`: the debugger's command
    returncode,   \* child.returncode once waited for
    procs,        \* the state of each OS process spawned
    termSent,     \* how many times terminate() was called on each handle
    exc,          \* the exception in flight, or None
    fileHistory,  \* the texts build.ninja has held, the first one first
    popens,       \* one record per child that debug's Popen calls started
    alive,        \* children started by Popen and not yet waited for
    mainThread    \* whether the call runs in the interpreter's main thread

vars == <<op, args, description, osname, files, buildFile, pc, diags, events,
          execs, patchFailed, logged, sigint, daemon, child, debugCmd, returncode, procs,
          termSent, exc, fileHistory, popens, alive, mainThread>>

\* Python's None
None == "None"

\* ------------------------------------------------------------------ bounds

\* longest build.ninja text considered
MaxLen == 2

\* the longest text of build.ninja when the rewriting is explored on its own
MaxPatchLen == 4

\* ------------------------------------------------------- strings and lists

StartsWith(s, pre) == Len(s) >= Len(pre) /\ SubSeq(s, 1, Len(pre)) = pre

\* str.endswith
EndsWith(s, suf) == Len(s) >= Len(suf) /\ SubSeq(s, Len(s) - Len(suf) + 1, Len(s)) = suf

\* s[:-n]
DropLast(s, n) == SubSeq(s, 1, Len(s) - n)

\* `sub in s`
Contains(s, sub) ==
    \E i \in 1..(Len(s) - Len(sub) + 1) : SubSeq(s, i, i + Len(sub) - 1) = sub

\* str.replace(old, new): left to right, occurrences do not overlap
RECURSIVE Replace(_, _, _)
Replace(s, old, new) ==
    IF Len(s) < Len(old) \/ Len(s) = 0 THEN s
    ELSE IF SubSeq(s, 1, Len(old)) = old
         THEN new \o Replace(SubSeq(s, Len(old) + 1, Len(s)), old, new)
         ELSE SubSeq(s, 1, 1) \o Replace(Tail(s), old, new)

\* posixpath.join(a, b)
PathJoin(a, b) ==
    IF StartsWith(b, "/") THEN b
    ELSE IF a = "" \/ EndsWith(a, "/") THEN a \o b
    ELSE a \o "/" \o b

\* the character at position i of a string
Ch(s, i) == SubSeq(s, i, i)

\* what repr writes for one character inside the quote q
ReprChar(c, q) ==
    IF c = q \/ c = "\\" THEN "\\" \o c
    ELSE IF c = "\n" THEN "\\n"
    ELSE IF c = "\t" THEN "\\t"
    ELSE IF c = "\r" THEN "\\r"
    ELSE c

RECURSIVE ReprChars(_, _)
ReprChars(s, q) ==
    IF Len(s) = 0 THEN ""
    ELSE ReprChar(Ch(s, 1), q) \o ReprChars(SubSeq(s, 2, Len(s)), q)

\* the characters that repr does not copy as they are, or that change its
\* choice of quote
ReprSpecial == {"\\", "'", "\n", "\t", "\r"}

\* repr of a str of printable ASCII, tab, newline and return: in double
\* quotes when it holds a single quote and no double quote, else in single
\* quotes; the quote in use and the backslash are escaped
ReprStr(s) ==
    IF \A i \in 1..Len(s) : Ch(s, i) \notin ReprSpecial
    THEN "'" \o s \o "'"
    ELSE LET q == IF Contains(s, "'") /\ ~Contains(s, "\"") THEN "\"" ELSE "'" IN
         q \o ReprChars(s, q) \o q

\* the items of repr(list of str), separated by ", "
RECURSIVE ReprItems(_)
ReprItems(l) ==
    IF Len(l) = 0 THEN ""
    ELSE IF Len(l) = 1 THEN ReprStr(l[1])
    ELSE ReprStr(l[1]) \o ", " \o ReprItems(Tail(l))

\* '%s' % (cmd) for a list cmd: its repr
ListStr(l) == "[" \o ReprItems(l) \o "]"

\* ------------------------------------------------------------- exec_helper

ENOENT == "ENOENT"
EACCES == "EACCES"

\* what subprocess.Popen(cmd, cwd=builddir) can do: start the child, raise
\* OSError with an errno, or raise something that is not an OSError
LaunchOutcomes ==
    { [launch |-> "ok", errno |-> None],
      [launch |-> "OSError", errno |-> ENOENT],
      [launch |-> "OSError", errno |-> EACCES],
      [launch |-> "TypeError", errno |-> None] }

\* an exit status: success, failure, killed by signal 9
ExitCodes == {0, 1, -9}

CMakeNotInstalled ==
    "CMake is not installed, please follow the installation instructions at http://docs.yottabuild.org/#installing"

NotInstalled(cmd) == cmd[1] \o " is not installed"

CommandFailed(cmd) == "command " \o ListStr(cmd) \o " failed"

\* a variant without the message for cmake
ExecOSError_generic(cmd, errno) ==
    IF errno = ENOENT THEN NotInstalled(cmd) ELSE CommandFailed(cmd)

\* the `except OSError as e` clause of exec_helper
ExecOSError(cmd, errno) ==
    IF errno = ENOENT
    THEN IF cmd[1] = "cmake" THEN CMakeNotInstalled ELSE NotInstalled(cmd)
    ELSE CommandFailed(cmd)

\* a variant that re-raises every OSError but ENOENT
ExecRaises_reraise(o) == o.launch # "ok" /\ ~(o.launch = "OSError" /\ o.errno = ENOENT)

\* exec_helper when Popen or wait() raised: does the exception leave
\* exec_helper? (`except OSError` catches nothing else)
ExecRaises(o) == o.launch \notin {"ok", "OSError"}

\* exec_helper when the child was started and waited for
ExecExit(cmd, rc) == IF rc # 0 THEN CommandFailed(cmd) ELSE None

\* ------------------------------------------------------------------- build

Generators ==
    {"Unix Makefiles", "Ninja", "Xcode", "Sublime Text 2 - Ninja",
     "Sublime Text 2 - Unix Makefiles"}

BuildDir == "/b"
TargetName == "t"
ComponentName == "c"

\* None is written <<>>: `if build_command:` treats both alike
overrideBuildCommand(generator_name) ==
    CASE generator_name = "Unix Makefiles" -> <<"make">>
      [] generator_name = "Ninja" -> <<"ninja">>
      [] OTHER -> <<>>

hintForCMakeGenerator(generator_name) ==
    CASE generator_name = "Xcode" ->
           "to open the built project, run:\nopen ./build/" \o TargetName \o "/" \o ComponentName \o ".xcodeproj"
      [] generator_name \in {"Sublime Text 2 - Ninja", "Sublime Text 2 - Unix Makefiles"} ->
           "to open the built project, run:\nopen ./build/" \o TargetName \o "/" \o ComponentName \o ".??"
      [] OTHER -> None

build_type(release_build) == IF release_build THEN "RelWithDebInfo" ELSE "Debug"

ConfigureCmd(a) ==
    <<"cmake", "-D", "CMAKE_BUILD_TYPE=" \o build_type(a.release_build), "-G", a.cmake_generator, ".">>

BuildCmd(a) ==
    IF overrideBuildCommand(a.cmake_generator) # <<>>
    THEN overrideBuildCommand(a.cmake_generator) \o a.build_args
    ELSE <<"cmake", "--build", BuildDir>> \o a.build_args

\* a variant that patches on every host
NeedsPatch_anyos(generator_name, os_name) == generator_name = "Ninja"

\* the condition of the patch step
NeedsPatch(generator_name, os_name) == generator_name = "Ninja" /\ os_name = "nt"

\* ntpath.join(a, b) for paths without a drive
NtPathJoin(a, b) ==
    IF StartsWith(b, "/") \/ StartsWith(b, "\\") THEN b
    ELSE IF a = "" \/ EndsWith(a, "/") \/ EndsWith(a, "\\") THEN a \o b
    ELSE a \o "\\" \o b

\* line 141 runs only where os.name is 'nt', so os.path is ntpath
build_file == NtPathJoin(BuildDir, "build.ninja")

UnableToUpdate == "Unable to update \"" \o build_file \o "\", aborting"

\* the characters of build.ninja: backslash, double quote, slash, any other
\* character, and the sentinel \1
SOH == "SOH"
Alphabet == {"\\", "\"", "/", "a", SOH}

RECURSIVE TextsOfLen(_)
TextsOfLen(n) ==
    IF n = 0 THEN {<<>>}
    ELSE {<<c>> \o t : c \in Alphabet, t \in TextsOfLen(n - 1)}

Texts == UNION {TextsOfLen(n) : n \in 0..MaxLen}

\* the texts on which the rewriting alone is explored
PatchTexts == UNION {TextsOfLen(n) : n \in 0..MaxPatchLen}

\* a variant without the sentinel: every backslash becomes a slash
NinjaPatch_noprotect(data) == Replace(data, <<"\\">>, <<"/">>)

\* a variant that restores the sentinel with one backslash too many
NinjaPatch_doubled(data) ==
    Replace(Replace(Replace(data, <<"\\", "\"">>, <<SOH>>), <<"\\">>, <<"/">>),
            <<SOH>>, <<"\\", "\\", "\"">>)

\* the three replaces of the patch step
NinjaPatch(data) ==
    Replace(Replace(Replace(data, <<"\\", "\"">>, <<SOH>>), <<"\\">>, <<"/">>),
            <<SOH>>, <<"\\", "\"">>)

\* ----------------------------------------------------------- the two calls

\* the calls of build considered: the defaults, and a release build with an
\* extra argument for the build command
BuildOptions ==
    { [release_build |-> FALSE, build_args |-> <<>>],
      [release_build |-> TRUE, build_args |-> <<"-j4">>] }

Programs == {"app", "app.c", "app.m", "app.cpp", "app.cxx", "app.h"}

\* the paths debug can ask os.path.isfile about, for the programs above
Paths ==
    {"/b/app", "/b/app.c", "/b/app.cpp", "/b/source/app", "/b/source/app.c",
     "/b/source/app.cpp"}

DescriptionKeys == {"debug", "debugServer", "debug-server"}

NoProcs == [daemon |-> "none", debugger |-> "none", tool |-> "none"]

\* the interpreter starts with signal.default_int_handler for SIGINT (it
\* raises KeyboardInterrupt); signal.SIG_DFL, the action of the operating
\* system, is another handler
InitCommon ==
    /\ diags = <<>>
    /\ events = <<>>
    /\ execs = <<>>
    /\ patchFailed = FALSE
    /\ logged = <<>>
    /\ sigint = "default_int_handler"
    /\ daemon = None
    /\ child = None
    /\ debugCmd = <<>>
    /\ returncode = None
    /\ procs = NoProcs
    /\ termSent = [daemon |-> 0, debugger |-> 0, tool |-> 0]
    /\ exc = None
    /\ fileHistory = <<buildFile>>
    /\ popens = <<>>
    /\ alive = 0

\* signal.signal raises ValueError in any thread but the main one
SignalRaises == ~mainThread

\* target.build(builddir, component, args, release_build, build_args) was
\* called: the generator exists and has not run yet
InitBuild ==
    /\ op = "build"
    /\ \E g \in Generators, o \in BuildOptions :
         args = [cmake_generator |-> g, release_build |-> o.release_build,
                 build_args |-> o.build_args, program |-> None]
    /\ description = {}
    /\ osname \in {"nt", "posix"}
    /\ files = {}
    /\ buildFile \in Texts
    /\ mainThread = TRUE
    /\ pc = "configure"
    /\ InitCommon

\* target.debug(builddir, program) was called
InitDebug ==
    /\ op = "debug"
    /\ args \in [cmake_generator : {None}, release_build : {FALSE},
                 build_args : {<<>>}, program : Programs]
    /\ description \in SUBSET DescriptionKeys
    /\ osname = "posix"
    /\ files \in SUBSET Paths
    /\ buildFile = <<>>
    /\ mainThread \in BOOLEAN
    /\ pc = "check"
    /\ InitCommon

Init == InitBuild \/ InitDebug

\* ----------------------------------------------------- build, step by step

ExecSteps == {"configure", "build"}
\* Popen returned: child.wait() is next
WaitOf == [configure |-> "configure_wait", build |-> "build_wait"]
StepOfWait == [configure_wait |-> "configure", build_wait |-> "build"]
YieldOf == [configure |-> "configure_yield", patch |-> "patch_yield", build |-> "build_yield"]
AfterOf == [configure |-> "patch", patch |-> "build", build |-> "hint"]
AfterYield == [configure_yield |-> "patch", patch_yield |-> "build", build_yield |-> "hint"]
BuildYields == {"configure_yield", "patch_yield", "build_yield"}

StepCmd(step) == IF step = "configure" THEN ConfigureCmd(args) ELSE BuildCmd(args)

ExecRecord(step, cmd, o, rc, res, raised) ==
    [step |-> step, cmd |-> cmd, launch |-> o.launch, errno |-> o.errno,
     rc |-> rc, res |-> res, raised |-> raised]

\* a variant that returns after the first diagnostic
YieldIfNotNone_return(step, res) ==
    IF res # None
    THEN diags' = Append(diags, res) /\ pc' = "done"
    ELSE diags' = diags /\ pc' = AfterOf[step]

\* `res = self.exec_helper(...); if res is not None: yield res`
YieldIfNotNone(step, res) ==
    IF res # None
    THEN diags' = Append(diags, res) /\ pc' = YieldOf[step]
    ELSE diags' = diags /\ pc' = AfterOf[step]

\* exec_helper up to Popen's return: the child runs, or Popen raised
build_exec_spawn ==
    /\ op = "build" /\ pc \in ExecSteps
    /\ events' = Append(events, pc)
    /\ \E o \in LaunchOutcomes :
         LET cmd == StepCmd(pc) IN
         \/ /\ o.launch = "ok"
            /\ procs' = [procs EXCEPT !.tool = "running"]
            /\ alive' = alive + 1
            /\ pc' = WaitOf[pc]
            /\ UNCHANGED <<diags, execs, exc>>
         \/ /\ o.launch # "ok" /\ ~ExecRaises(o)
            /\ execs' = Append(execs, ExecRecord(pc, cmd, o, <<>>, ExecOSError(cmd, o.errno), FALSE))
            /\ YieldIfNotNone(pc, ExecOSError(cmd, o.errno))
            /\ UNCHANGED <<procs, exc, alive>>
         \/ /\ o.launch # "ok" /\ ExecRaises(o)
            /\ execs' = Append(execs, ExecRecord(pc, cmd, o, <<>>, None, TRUE))
            /\ exc' = o.launch
            /\ pc' = "raised"
            /\ UNCHANGED <<procs, diags, alive>>
    /\ UNCHANGED <<op, args, description, osname, files, buildFile, logged, sigint,
                   daemon, child, returncode, termSent, patchFailed, debugCmd,
                   fileHistory, popens, mainThread>>

\* what child.wait() can raise while it blocks: the exception of a signal
\* handler (KeyboardInterrupt of the default SIGINT handler, or whatever a
\* handler of the caller raises, an OSError with any errno included) or the
\* OSError of waitpid itself (`launch` names the class of the exception, as
\* in LaunchOutcomes)
WaitRaises ==
    { [launch |-> "KeyboardInterrupt", errno |-> None],
      [launch |-> "Exception", errno |-> None],
      [launch |-> "OSError", errno |-> ENOENT],
      [launch |-> "OSError", errno |-> EACCES] }

\* exec_helper from child.wait() on. The child exits with a status; or
\* wait() raises an OSError, which `except OSError` (line 110) takes for a
\* failure of the launch: its diagnostic is returned and build goes on, the
\* child still running and never waited for; or wait() raises something
\* else, which leaves exec_helper and build, the child not waited for
build_exec_wait ==
    /\ op = "build" /\ pc \in DOMAIN StepOfWait
    /\ LET step == StepOfWait[pc]
           cmd == StepCmd(step)
           ok == [launch |-> "ok", errno |-> None] IN
       \/ \E rc \in ExitCodes :
            /\ procs' = [procs EXCEPT !.tool = "exited"]
            /\ alive' = alive - 1
            /\ execs' = Append(execs, ExecRecord(step, cmd, ok, <<rc>>, ExecExit(cmd, rc), FALSE))
            /\ YieldIfNotNone(step, ExecExit(cmd, rc))
            /\ UNCHANGED exc
       \/ \E w \in WaitRaises :
            /\ ~ExecRaises(w)
            /\ execs' = Append(execs, ExecRecord(step, cmd, [launch |-> "ok", errno |-> w.errno],
                                                 <<>>, ExecOSError(cmd, w.errno), FALSE))
            /\ YieldIfNotNone(step, ExecOSError(cmd, w.errno))
            /\ UNCHANGED <<procs, alive, exc>>
       \/ \E w \in WaitRaises :
            /\ ExecRaises(w)
            /\ execs' = Append(execs, ExecRecord(step, cmd, ok, <<>>, None, TRUE))
            /\ exc' = w.launch
            /\ pc' = "raised"
            /\ UNCHANGED <<procs, alive, diags>>
    /\ UNCHANGED <<op, args, description, osname, files, buildFile, events, logged,
                   sigint, daemon, child, returncode, termSent, patchFailed, debugCmd,
                   fileHistory, popens, mainThread>>

PartlyWritten(old, new, k) == SubSeq(new, 1, k) \o SubSeq(old, k + 1, Len(old))

\* `f.seek(0); f.write(data)` on a file opened "r+": the text is written over
\* the start of the file, and nothing truncates what lies beyond it
Overwrite(old, new) == PartlyWritten(old, new, Len(new))

\* the body of the `with` of lines 146-154: read, three replaces, write back
RewriteFile ==
    /\ buildFile' = Overwrite(buildFile, NinjaPatch(buildFile))
    /\ fileHistory' = Append(fileHistory, buildFile')

\* the patch step: the `if` of line 139 and its body
build_patch ==
    /\ op = "build" /\ pc = "patch"
    /\ \/ /\ ~NeedsPatch(args.cmake_generator, osname)
          /\ pc' = AfterOf["patch"]
          /\ UNCHANGED <<buildFile, fileHistory, diags, events, patchFailed>>
       \/ /\ NeedsPatch(args.cmake_generator, osname)
          /\ events' = Append(events, "patch")
          /\ \/ /\ RewriteFile
                /\ pc' = AfterOf["patch"]
                /\ UNCHANGED <<diags, patchFailed>>
             \/ \* open or read raised
                /\ patchFailed' = TRUE
                /\ YieldIfNotNone("patch", UnableToUpdate)
                /\ UNCHANGED <<buildFile, fileHistory>>
             \/ \* write raised
                /\ patchFailed' = TRUE
                /\ \E k \in 0..Len(NinjaPatch(buildFile)) :
                     buildFile' = PartlyWritten(buildFile, NinjaPatch(buildFile), k)
                /\ fileHistory' = Append(fileHistory, buildFile')
                /\ YieldIfNotNone("patch", UnableToUpdate)
    /\ UNCHANGED <<op, args, description, osname, files, execs, logged, sigint,
                   daemon, child, returncode, procs, termSent, exc, debugCmd,
                   popens, alive, mainThread>>

\* a variant that yields the hint
EmitHint_yield(hint) ==
    /\ logged' = logged
    /\ diags' = IF hint # None THEN Append(diags, hint) ELSE diags

\* `if hint: logging.info(hint)`
EmitHint(hint) ==
    /\ logged' = IF hint # None THEN Append(logged, hint) ELSE logged
    /\ diags' = diags

\* the hint, and the end of the generator
build_hint ==
    /\ op = "build" /\ pc = "hint"
    /\ EmitHint(hintForCMakeGenerator(args.cmake_generator))
    /\ pc' = "done"
    /\ UNCHANGED <<op, args, description, osname, files, buildFile, events,
                   execs, sigint, daemon, child, returncode, procs, termSent, exc, patchFailed, debugCmd,
                   fileHistory, popens, alive, mainThread>>

\* the caller's next() on build, suspended at a yield
build_resume ==
    /\ op = "build" /\ pc \in BuildYields
    /\ pc' = AfterYield[pc]
    /\ UNCHANGED <<op, args, description, osname, files, buildFile, diags, events,
                   execs, logged, sigint, daemon, child, returncode, procs, termSent, exc, patchFailed, debugCmd,
                   fileHistory, popens, alive, mainThread>>

\* the caller's close() on build, suspended at a yield (also what dropping
\* the generator does): GeneratorExit leaves the generator, nothing catches it
build_close ==
    /\ op = "build" /\ pc \in BuildYields
    /\ pc' = "closed"
    /\ UNCHANGED <<op, args, description, osname, files, buildFile, diags, events,
                   execs, logged, sigint, daemon, child, returncode, procs, termSent, exc, patchFailed, debugCmd,
                   fileHistory, popens, alive, mainThread>>

\* ----------------------------------------------------- debug, step by step

\* str(self) in the first diagnostic
TargetStr == TargetName

NoDebugCommands == "Target " \o TargetStr \o " does not specify debug commands"

prog_path(program) == PathJoin(BuildDir, program)

\* os.path.isfile
isfile(path) == path \in files

\* a variant whose suffix branches do not fall through
Suggestion_nested(program) ==
    IF EndsWith(prog_path(program), ".c") \/ EndsWith(prog_path(program), ".m")
    THEN IF isfile(DropLast(prog_path(program), 2)) THEN DropLast(program, 2) ELSE None
    ELSE IF EndsWith(prog_path(program), ".cpp") \/ EndsWith(prog_path(program), ".cxx")
    THEN IF isfile(DropLast(prog_path(program), 4)) THEN DropLast(program, 4) ELSE None
    ELSE IF isfile(PathJoin(PathJoin(BuildDir, "source"), program))
    THEN PathJoin("source", program)
    ELSE None

\* the suggestion for a program that is missing, or None
Suggestion(program) ==
    IF (EndsWith(prog_path(program), ".c") \/ EndsWith(prog_path(program), ".m"))
       /\ isfile(DropLast(prog_path(program), 2))
    THEN DropLast(program, 2)
    ELSE IF (EndsWith(prog_path(program), ".cpp") \/ EndsWith(prog_path(program), ".cxx"))
            /\ isfile(DropLast(prog_path(program), 4))
    THEN DropLast(program, 4)
    ELSE IF isfile(PathJoin(PathJoin(BuildDir, "source"), program))
    THEN PathJoin("source", program)
    ELSE None

DoesNotExist(program) ==
    IF Suggestion(program) # None
    THEN program \o " does not exist, perhaps you meant " \o Suggestion(program)
    ELSE program \o " does not exist"

StatusDiag(rc) == "debug process executed with status " \o ToString(rc)

\* a variant that prefers the old name
debug_server_prop_old == IF "debug-server" \in description THEN "debug-server" ELSE "debugServer"

\* debug-server is the old name, debugServer is the new name
debug_server_prop == IF "debugServer" \in description THEN "debugServer" ELSE "debug-server"

\* self.description[key] for the two server keys: two different commands
DescriptionValue(key) ==
    IF key = "debugServer" THEN <<"pyocd-gdbserver">> ELSE <<"old-gdbserver">>

\* a Popen call of debug: which local it is bound to, its command, its cwd
PopenRecord(who, cmd, cwd) == [who |-> who, cmd |-> cmd, cwd |-> cwd]

\* a variant that installs the handler once the debugger runs
NextInSession_late(p) ==
    CASE p = "daemon" -> "cmd"
      [] p = "cmd" -> "spawn"
      [] p = "spawn" -> "signal"
      [] p = "signal" -> "wait"

\* the order of the statements of the try block up to child.wait()
NextInSession(p) ==
    CASE p = "daemon" -> "signal"
      [] p = "signal" -> "cmd"
      [] p = "cmd" -> "spawn"
      [] p = "spawn" -> "wait"

\* a variant that forgets the debugger before the diagnostic is yielded
HandleAtStatusYield_forgotten(h) == None

\* `child = None` comes after the yield: the handle is kept while suspended
HandleAtStatusYield(h) == h

\* self.description['debug'], and the environment of os.path.expandvars
DebugTemplates == <<"gdb", "$program", "--cd=$HOME">>
EnvHome == "/h"

\* os.environ of the call
Environ == [HOME |-> EnvHome]

Lower ==
    {"a", "b", "c", "d", "e", "f", "g", "h", "i", "j", "k", "l", "m"} \cup
    {"n", "o", "p", "q", "r", "s", "t", "u", "v", "w", "x", "y", "z"}
Upper ==
    {"A", "B", "C", "D", "E", "F", "G", "H", "I", "J", "K", "L", "M"} \cup
    {"N", "O", "P", "Q", "R", "S", "T", "U", "V", "W", "X", "Y", "Z"}
Digits == {"0", "1", "2", "3", "4", "5", "6", "7", "8", "9"}

\* [_a-z] and [_a-z0-9] under re.IGNORECASE, which is also \w
IdStart == Lower \cup Upper \cup {"_"}
IdChar == IdStart \cup Digits

\* where the longest run of identifier characters that starts at i ends
\* (i - 1 when there is none)
IdEnd(s, i) ==
    CHOOSE j \in (i - 1)..Len(s) :
        /\ \A k \in i..j : Ch(s, k) \in IdChar
        /\ j = Len(s) \/ Ch(s, j + 1) \notin IdChar

\* string.Template(s).safe_substitute(program=path), from position i on:
\* $$ is a dollar, $name and ${name} are the path when name is `program`
\* and are left alone otherwise, any other dollar is left alone; what was
\* substituted is not looked at again
RECURSIVE SafeSubstitute(_, _, _)
SafeSubstitute(s, i, path) ==
    IF i > Len(s) THEN ""
    ELSE IF Ch(s, i) # "$" THEN Ch(s, i) \o SafeSubstitute(s, i + 1, path)
    ELSE IF i < Len(s) /\ Ch(s, i + 1) = "$"
    THEN "$" \o SafeSubstitute(s, i + 2, path)
    ELSE IF i < Len(s) /\ Ch(s, i + 1) \in IdStart
    THEN LET j == IdEnd(s, i + 1)
             named == SubSeq(s, i + 1, j) IN
         (IF named = "program" THEN path ELSE "$" \o named)
             \o SafeSubstitute(s, j + 1, path)
    ELSE IF /\ i + 1 < Len(s) /\ Ch(s, i + 1) = "{" /\ Ch(s, i + 2) \in IdStart
            /\ IdEnd(s, i + 2) < Len(s) /\ Ch(s, IdEnd(s, i + 2) + 1) = "}"
    THEN LET j == IdEnd(s, i + 2)
             braced == SubSeq(s, i + 2, j) IN
         (IF braced = "program" THEN path ELSE "${" \o braced \o "}")
             \o SafeSubstitute(s, j + 2, path)
    ELSE "$" \o SafeSubstitute(s, i + 1, path)

\* posixpath.expandvars(s), from position i on: $name (\w+) and ${name}
\* (anything up to the first closing brace) are the value of name when the
\* environment has it and are left alone otherwise
RECURSIVE ExpandVars(_, _)
ExpandVars(s, i) ==
    IF i > Len(s) THEN ""
    ELSE IF Ch(s, i) # "$" THEN Ch(s, i) \o ExpandVars(s, i + 1)
    ELSE IF i < Len(s) /\ Ch(s, i + 1) \in IdChar
    THEN LET j == IdEnd(s, i + 1)
             name == SubSeq(s, i + 1, j) IN
         (IF name \in DOMAIN Environ THEN Environ[name] ELSE "$" \o name)
             \o ExpandVars(s, j + 1)
    ELSE IF /\ i < Len(s) /\ Ch(s, i + 1) = "{"
            /\ \E k \in (i + 2)..Len(s) : Ch(s, k) = "}"
    THEN LET j == CHOOSE k \in (i + 2)..Len(s) :
                      Ch(s, k) = "}" /\ \A m \in (i + 2)..(k - 1) : Ch(s, m) # "}"
             name == SubSeq(s, i + 2, j - 1) IN
         (IF name \in DOMAIN Environ THEN Environ[name] ELSE SubSeq(s, i, j))
             \o ExpandVars(s, j + 1)
    ELSE "$" \o ExpandVars(s, i + 1)

\* a variant that passes the templates on as they are
Substitute_verbatim(x, path) == x

\* os.path.expandvars(string.Template(x).safe_substitute(program=prog_path))
Substitute(x, path) == ExpandVars(SafeSubstitute(x, 1, path), 1)

DebugCmd(program) ==
    [i \in 1..Len(DebugTemplates) |-> Substitute(DebugTemplates[i], prog_path(program))]

\* Popen.terminate() of python 2.7 is os.kill(pid, SIGTERM) whatever
\* returncode says. The call raises OSError(ESRCH) when no process has the
\* pid any more: the child was reaped by wait(), or it exited by itself and
\* was reaped without the handle's wait() (SIGCHLD ignored, another waiter).
\* Otherwise it returns: the child, dead or alive, takes the signal, or the
\* process that has been given the pid of a reaped child does
TerminateRaises(p) == IF procs[p] \in {"running", "exited"} THEN BOOLEAN ELSE {FALSE}

\* handle.terminate() on process p inside the finally clause: the clause
\* goes on at `next`, or the OSError of terminate() leaves it (and replaces
\* the exception that was in flight); a child not waited for that the call
\* does not find is "reaped"
Terminate(p, next) ==
    /\ termSent' = [termSent EXCEPT ![p] = @ + 1]
    /\ events' = Append(events, "terminate " \o p)
    /\ \E raises \in TerminateRaises(p) :
         IF raises
         THEN /\ procs' = [procs EXCEPT ![p] = IF @ = "running" THEN "reaped" ELSE @]
              /\ exc' = "OSError"
              /\ pc' = "raised"
         ELSE /\ procs' = [procs EXCEPT ![p] = IF @ = "running" THEN "terminated" ELSE @]
              /\ exc' = exc
              /\ pc' = next

\* an exception raised inside the try block
Raise(e) == exc' = e /\ pc' = "except"

\* how the generator ends once the finally block is through
EndOfFinally(e) ==
    IF e = None THEN "done" ELSE IF e = "GeneratorExit" THEN "closed" ELSE "raised"

\* signal.signal(signal.SIGINT, signal.SIG_DFL), the last statement of the
\* finally clause: the handler is restored and the exception in flight goes
\* on, or signal.signal raises and its ValueError is what leaves debug
RestoreSigint ==
    IF SignalRaises
    THEN /\ UNCHANGED <<sigint, events>>
         /\ exc' = "ValueError"
         /\ pc' = "raised"
    ELSE /\ sigint' = "SIG_DFL"
         /\ events' = Append(events, "signal SIG_DFL")
         /\ exc' = exc
         /\ pc' = EndOfFinally(exc)

\* a variant that is content with a debug server
HasDebug_or_server == "debug" \in description \/ debug_server_prop \in description

\* `'debug' in self.description`
HasDebug == "debug" \in description

\* lines 171-192: the two early diagnostics, or open(os.devnull) (line 190,
\* before the try) succeeds and the session begins, or it fails and its
\* IOError leaves debug, no except or finally clause around it
debug_check ==
    /\ op = "debug" /\ pc = "check"
    /\ \/ /\ ~HasDebug
          /\ diags' = Append(diags, NoDebugCommands)
          /\ pc' = "nodebug_yield"
          /\ UNCHANGED exc
       \/ /\ HasDebug
          /\ ~isfile(prog_path(args.program))
          /\ diags' = Append(diags, DoesNotExist(args.program))
          /\ pc' = "missing_yield"
          /\ UNCHANGED exc
       \/ /\ HasDebug
          /\ isfile(prog_path(args.program))
          /\ diags' = diags
          /\ pc' = "daemon"
          /\ UNCHANGED exc
       \/ /\ HasDebug
          /\ isfile(prog_path(args.program))
          /\ diags' = diags
          /\ exc' = "IOError"
          /\ pc' = "raised"
    /\ daemon' = None
    /\ child' = None
    /\ UNCHANGED <<op, args, description, osname, files, buildFile, events, execs,
                   logged, sigint, returncode, procs, termSent, patchFailed, debugCmd,
                   fileHistory, popens, alive, mainThread>>

\* lines 195-209: the debug server, if the description names one
debug_start_daemon ==
    /\ op = "debug" /\ pc = "daemon"
    /\ \/ /\ debug_server_prop \in description
          /\ daemon' = "Popen"
          /\ procs' = [procs EXCEPT !.daemon = "running"]
          /\ events' = Append(events, "spawn daemon " \o debug_server_prop)
          /\ popens' = Append(popens, PopenRecord("daemon", DescriptionValue(debug_server_prop), BuildDir))
          /\ alive' = alive + 1
          /\ pc' = NextInSession(pc)
          /\ UNCHANGED exc
       \/ /\ debug_server_prop \in description
          /\ Raise("OSError")
          /\ UNCHANGED <<daemon, procs, events, popens, alive>>
       \/ /\ debug_server_prop \notin description
          /\ daemon' = None
          /\ pc' = NextInSession(pc)
          /\ UNCHANGED <<procs, events, exc, popens, alive>>
    /\ UNCHANGED <<op, args, description, osname, files, buildFile, diags, execs,
                   logged, sigint, child, returncode, termSent, patchFailed, debugCmd,
                   fileHistory, mainThread>>

\* line 212
debug_install_handler ==
    /\ op = "debug" /\ pc = "signal"
    /\ IF SignalRaises
       THEN /\ Raise("ValueError")
            /\ UNCHANGED <<sigint, events>>
       ELSE /\ sigint' = "_ignoreSignal"
            /\ events' = Append(events, "signal _ignoreSignal")
            /\ pc' = NextInSession(pc)
            /\ UNCHANGED exc
    /\ UNCHANGED <<op, args, description, osname, files, buildFile, diags, execs,
                   logged, daemon, child, returncode, procs, termSent, patchFailed, debugCmd,
                   fileHistory, popens, alive, mainThread>>

\* lines 213-217
debug_build_cmd ==
    /\ op = "debug" /\ pc = "cmd"
    /\ \/ /\ debugCmd' = DebugCmd(args.program)
          /\ pc' = NextInSession(pc)
          /\ UNCHANGED exc
       \/ /\ Raise("TypeError")
          /\ UNCHANGED debugCmd
    /\ UNCHANGED <<op, args, description, osname, files, buildFile, diags, events,
                   execs, logged, sigint, daemon, child, returncode, procs, termSent, patchFailed,
                   fileHistory, popens, alive, mainThread>>

\* lines 218-220
debug_spawn ==
    /\ op = "debug" /\ pc = "spawn"
    /\ \/ /\ child' = "Popen"
          /\ procs' = [procs EXCEPT !.debugger = "running"]
          /\ events' = Append(events, "spawn debugger")
          /\ popens' = Append(popens, PopenRecord("child", debugCmd, BuildDir))
          /\ alive' = alive + 1
          /\ pc' = NextInSession(pc)
          /\ UNCHANGED exc
       \/ /\ Raise("OSError")
          /\ UNCHANGED <<child, procs, events, popens, alive>>
    /\ UNCHANGED <<op, args, description, osname, files, buildFile, diags, execs,
                   logged, sigint, daemon, returncode, termSent, patchFailed, debugCmd,
                   fileHistory, mainThread>>

\* lines 221-224: the debugger exits and wait() returns, or wait() raises
debug_wait ==
    /\ op = "debug" /\ pc = "wait"
    /\ \/ \E rc \in ExitCodes :
            /\ procs' = [procs EXCEPT !.debugger = "exited"]
            /\ returncode' = rc
            /\ alive' = alive - 1
            /\ IF rc # 0
               THEN /\ diags' = Append(diags, StatusDiag(rc))
                    /\ pc' = "status_yield"
                    /\ child' = HandleAtStatusYield(child)
               ELSE /\ child' = None
                    /\ pc' = "finally_child"
                    /\ UNCHANGED diags
            /\ UNCHANGED exc
       \/ /\ Raise("Exception")
          /\ UNCHANGED <<procs, returncode, diags, child, alive>>
    /\ UNCHANGED <<op, args, description, osname, files, buildFile, events, execs,
                   logged, sigint, daemon, termSent, patchFailed, debugCmd,
                   fileHistory, popens, mainThread>>

DebugYields == {"nodebug_yield", "missing_yield", "status_yield"}

\* the caller's next() on debug, suspended at a yield
debug_resume ==
    /\ op = "debug" /\ pc \in DebugYields
    /\ \/ /\ pc # "status_yield"
          /\ pc' = "done"
          /\ UNCHANGED child
       \/ /\ pc = "status_yield"
          /\ child' = None
          /\ pc' = "finally_child"
    /\ UNCHANGED <<op, args, description, osname, files, buildFile, diags, events,
                   execs, logged, sigint, daemon, returncode, procs, termSent, exc, patchFailed, debugCmd,
                   fileHistory, popens, alive, mainThread>>

\* the caller's close() on debug, suspended at a yield (also what dropping
\* the generator does): GeneratorExit is raised at the yield
debug_close ==
    /\ op = "debug" /\ pc \in DebugYields
    /\ \/ /\ pc # "status_yield"
          /\ pc' = "closed"
          /\ UNCHANGED exc
       \/ /\ pc = "status_yield"
          /\ Raise("GeneratorExit")
    /\ UNCHANGED <<op, args, description, osname, files, buildFile, diags, events,
                   execs, logged, sigint, daemon, child, returncode, procs, termSent, patchFailed, debugCmd,
                   fileHistory, popens, alive, mainThread>>

\* a variant that leaves the terminal alone
ResetTerminal_skipped == events' = events

\* os.system('reset')
ResetTerminal == events' = Append(events, "reset")

\* lines 225-228: the bare except; its `raise` leads to the finally block
debug_except ==
    /\ op = "debug" /\ pc = "except"
    /\ ResetTerminal
    /\ pc' = "finally_child"
    /\ UNCHANGED <<op, args, description, osname, files, buildFile, diags, execs,
                   logged, sigint, daemon, child, returncode, procs, termSent, exc, patchFailed, debugCmd,
                   fileHistory, popens, alive, mainThread>>

\* lines 230-231
debug_finally_child ==
    /\ op = "debug" /\ pc = "finally_child"
    /\ IF child # None
       THEN Terminate("debugger", "finally_daemon")
       ELSE UNCHANGED <<termSent, procs, events, exc>> /\ pc' = "finally_daemon"
    /\ UNCHANGED <<op, args, description, osname, files, buildFile, diags, execs,
                   logged, sigint, daemon, child, returncode, patchFailed, debugCmd,
                   fileHistory, popens, alive, mainThread>>

\* lines 232-234
debug_finally_daemon ==
    /\ op = "debug" /\ pc = "finally_daemon"
    /\ IF daemon # None
       THEN Terminate("daemon", "finally_signal")
       ELSE UNCHANGED <<termSent, procs, events, exc>> /\ pc' = "finally_signal"
    /\ UNCHANGED <<op, args, description, osname, files, buildFile, diags, execs,
                   logged, sigint, daemon, child, returncode, patchFailed, debugCmd,
                   fileHistory, popens, alive, mainThread>>

\* line 236, and the generator ends
debug_finally_signal ==
    /\ op = "debug" /\ pc = "finally_signal"
    /\ RestoreSigint
    /\ UNCHANGED <<op, args, description, osname, files, buildFile, diags, execs,
                   logged, daemon, child, returncode, procs, termSent, patchFailed, debugCmd,
                   fileHistory, popens, alive, mainThread>>

Next ==
    \/ build_exec_spawn
    \/ build_exec_wait
    \/ build_patch
    \/ build_hint
    \/ build_resume
    \/ build_close
    \/ debug_check
    \/ debug_start_daemon
    \/ debug_install_handler
    \/ debug_build_cmd
    \/ debug_spawn
    \/ debug_wait
    \/ debug_resume
    \/ debug_close
    \/ debug_except
    \/ debug_finally_child
    \/ debug_finally_daemon
    \/ debug_finally_signal

Spec == Init /\ [][Next]_vars

\* ------------------------------------------------ debug calls that go on

\* the steps of a debug call
NextDebug ==
    \/ debug_check
    \/ debug_start_daemon
    \/ debug_install_handler
    \/ debug_build_cmd
    \/ debug_spawn
    \/ debug_wait
    \/ debug_resume
    \/ debug_close
    \/ debug_except
    \/ debug_finally_child
    \/ debug_finally_daemon
    \/ debug_finally_signal

\* debug calls in which whatever can happen next does happen: the interpreter
\* runs the generator's statements one after the other, child.wait() returns
\* or raises (the debugger exits or fails), and a caller holding a suspended
\* generator resumes it or closes it
SpecDebugFair == InitDebug /\ [][NextDebug]_vars /\ WF_vars(NextDebug)

\* ------------------------------------------- the rewriting of build.ninja

\* the body of the patch step on its own, on longer texts: a Ninja build on
\* Windows reaches it with whatever cmake left in build.ninja, and the next
\* build reaches it again with what this one wrote
InitPatch ==
    /\ op = "patch"
    /\ args = [cmake_generator |-> "Ninja", release_build |-> FALSE,
               build_args |-> <<>>, program |-> None]
    /\ description = {}
    /\ osname = "nt"
    /\ files = {}
    /\ buildFile \in PatchTexts
    /\ mainThread = TRUE
    /\ pc = "rewrite"
    /\ InitCommon

AfterRewrite == [rewrite |-> "rewrite_again", rewrite_again |-> "rewritten"]

patch_rewrite ==
    /\ op = "patch" /\ pc \in DOMAIN AfterRewrite
    /\ NeedsPatch(args.cmake_generator, osname)
    /\ RewriteFile
    /\ events' = Append(events, "patch")
    /\ pc' = AfterRewrite[pc]
    /\ UNCHANGED <<op, args, description, osname, files, diags, execs, patchFailed,
                   logged, sigint, daemon, child, debugCmd, returncode, procs,
                   termSent, exc, popens, alive, mainThread>>

NextPatch == patch_rewrite

SpecPatch == InitPatch /\ [][NextPatch]_vars

\* ------------------------------------------------------------- the claims

Range(seq) == {seq[i] : i \in DOMAIN seq}

\* a occurs in the events, and before every b
Before(a, b) ==
    /\ a \in Range(events)
    /\ \A j \in DOMAIN events : events[j] = b => \E i \in 1..(j - 1) : events[i] = a

IsPrefix(a, b) == Len(a) <= Len(b) /\ SubSeq(b, 1, Len(a)) = a

Handle(p) == IF p = "daemon" THEN daemon ELSE child

\* the generator has ended: exhausted, closed, or left by an exception
Returned == pc \in {"done", "closed", "raised"}

\* the handlers that are a default: the one the interpreter starts with and
\* the one line 236 installs
DefaultHandlers == {"default_int_handler", "SIG_DFL"}

\* C1 as claimed: once a debug call has ended, on whatever path, the SIGINT
\* handler is a default one (never the ignoring one) and no daemon or debugger is still running
\* without having been sent terminate() (whether its handle is still
\* referenced or not).
C1_CleanAfterDebug ==
    (op = "debug" /\ Returned) =>
        /\ sigint \in DefaultHandlers
        /\ \A p \in {"daemon", "debugger"} :
             /\ ~(Handle(p) # None /\ procs[p] = "running" /\ termSent[p] = 0)
             /\ procs[p] # "running"

CleanupEvents == {"terminate debugger", "terminate daemon", "signal SIG_DFL"}

\* the exception that left debug was raised inside the session block (the
\* try of lines 193-224) before child.wait() returned: not by open() of
\* line 190, not by the caller's close() at the status diagnostic
SessionExceptionLeft ==
    op = "debug" /\ pc = "raised" /\ exc # "IOError" /\ procs.debugger # "exited"

\* C2 as claimed: when an exception has left the debug session, the cleanup
\* (terminate the debugger if still referenced, terminate the daemon if
\* started, restore SIGINT) came first, the terminal reset after it, and the
\* exception that leaves is the one that was raised.
C2_CleanupThenReset ==
    SessionExceptionLeft =>
        /\ "reset" \in Range(events)
        /\ Before("signal SIG_DFL", "reset")
        /\ (child # None => Before("terminate debugger", "reset"))
        /\ (daemon # None => Before("terminate daemon", "reset"))
        /\ exc \in {"OSError", "ValueError", "TypeError", "Exception"}

\* a cleanup step raised: terminate() did not find the process (OSError)
TerminateRaised(p) == procs[p] = "reaped"

\* C2 as amended: a terminal reset is never issued after a cleanup event:
\* on the way out with an exception the reset comes first. When an
\* exception of the session block has left, the reset was issued once and
\* the cleanup ran after it in the
\* order terminate debugger (if still referenced), terminate daemon (if
\* started), restore SIGINT, up to its first step that raised: after a
\* terminate() that raised nothing more of the cleanup ran, SIGINT is still
\* ignored if it was, and the OSError of terminate() is what leaves; with no
\* terminate() raising, in the main thread SIGINT was restored last and the
\* exception that leaves is the one that was raised (OSError of a Popen,
\* TypeError of the command construction, or the exception of wait() once
\* the debugger was spawned), and in any other thread the restore raises,
\* no restore took place and a ValueError is what leaves.
C2_ResetThenCleanup ==
    /\ op = "debug" =>
          \A i, j \in DOMAIN events :
              (events[i] \in CleanupEvents /\ events[j] = "reset") => j < i
    /\ SessionExceptionLeft =>
          /\ Cardinality({i \in DOMAIN events : events[i] = "reset"}) = 1
          /\ (child # None) <=> ("terminate debugger" \in Range(events))
          /\ (daemon # None /\ ~TerminateRaised("debugger"))
                <=> ("terminate daemon" \in Range(events))
          /\ ("terminate debugger" \in Range(events) /\ "terminate daemon" \in Range(events))
                => Before("terminate debugger", "terminate daemon")
          /\ IF TerminateRaised("debugger") \/ TerminateRaised("daemon")
             THEN /\ exc = "OSError"
                  /\ "signal SIG_DFL" \notin Range(events)
                  /\ events[Len(events)] =
                       (IF TerminateRaised("debugger") THEN "terminate debugger"
                                                       ELSE "terminate daemon")
                  /\ "signal _ignoreSignal" \in Range(events) => sigint = "_ignoreSignal"
             ELSE /\ mainThread =>
                       /\ events[Len(events)] = "signal SIG_DFL"
                       /\ sigint = "SIG_DFL"
                       /\ IF "spawn debugger" \in Range(events)
                          THEN exc = "Exception"
                          ELSE exc \in {"OSError", "TypeError"}
                  /\ ~mainThread =>
                       /\ "signal SIG_DFL" \notin Range(events)
                       /\ exc = "ValueError"

\* the debugger could not be started while the daemon ran: reset, then the
\* daemon is terminated and SIGINT restored
C2_Witness ==
    /\ op = "debug" /\ pc = "raised" /\ exc = "OSError" /\ mainThread
    /\ events = <<"spawn daemon debugServer", "signal _ignoreSignal", "reset",
                  "terminate daemon", "signal SIG_DFL">>

ExpectedSteps ==
    IF args.cmake_generator = "Ninja" /\ osname = "nt"
    THEN <<"configure", "patch", "build">>
    ELSE <<"configure", "build">>

\* the step did not succeed: it was not started, or exited non-zero
Failed(e) == e.launch # "ok" \/ e.rc # <<0>>

\* C3: build never short-circuits. The steps run in the order configure,
\* (patch), build, each at most once; a build call that the caller consumed
\* to its end has run the build step exactly once whatever configure and the
\* patch did, and holds the diagnostic of every step that failed.
C3_BuildNeverShortCircuits ==
    op = "build" =>
        /\ IsPrefix(events, ExpectedSteps)
        /\ pc = "done" =>
             /\ events = ExpectedSteps
             /\ Len(execs) = 2
             /\ execs[1].step = "configure" /\ execs[2].step = "build"
             /\ \A i \in 1..2 : Failed(execs[i]) => execs[i].res \in Range(diags)

\* configure, the patch and build all failed, and build ran to its end
C3_Witness ==
    /\ op = "build" /\ pc = "done"
    /\ Len(execs) = 2 /\ Failed(execs[1]) /\ Failed(execs[2]) /\ patchFailed
    /\ Len(diags) = 3
    /\ "build" \in Range(events)

\* the diagnostics the failed steps so far call for, in step order
StepDiags ==
    (IF Len(execs) >= 1 /\ Failed(execs[1]) /\ ~execs[1].raised THEN <<execs[1].res>> ELSE <<>>)
    \o (IF patchFailed THEN <<UnableToUpdate>> ELSE <<>>)
    \o (IF Len(execs) >= 2 /\ Failed(execs[2]) /\ ~execs[2].raised THEN <<execs[2].res>> ELSE <<>>)

\* C4: the diagnostics of build are exactly one string per failed step, in
\* step order (a step whose launch or wait raised past exec_helper ends the call and
\* has none); the sequence of a finished call is empty exactly when no step
\* failed, and the generator hint is logged, never yielded.
C4_OneDiagnosticPerFailedStep ==
    op = "build" =>
        /\ diags = StepDiags
        /\ \A i \in DOMAIN diags :
             diags[i] # None /\ diags[i] # hintForCMakeGenerator(args.cmake_generator)
        /\ pc = "done" =>
             /\ (diags = <<>>) <=> (~patchFailed /\ \A i \in DOMAIN execs : ~Failed(execs[i]))
             /\ (hintForCMakeGenerator(args.cmake_generator) # None)
                  <=> (logged = <<hintForCMakeGenerator(args.cmake_generator)>>)

\* an Xcode build whose configure and build steps failed: two diagnostics,
\* and the hint in the log
C4_Witness ==
    /\ op = "build" /\ pc = "done" /\ args.cmake_generator = "Xcode"
    /\ Len(diags) = 2 /\ Len(logged) = 1
    /\ Failed(execs[1]) /\ Failed(execs[2])

\* the launch failed, and not because the executable was not found
OtherLaunchFailure(e) == e.launch # "ok" /\ ~(e.launch = "OSError" /\ e.errno = ENOENT)

\* C5 as claimed: a launch failure that is not of the not-found class always
\* propagates, and exec_helper returns no diagnostic for it.
C5_OtherLaunchFailurePropagates ==
    \A i \in DOMAIN execs :
        OtherLaunchFailure(execs[i]) => execs[i].raised /\ execs[i].res = None

\* C5 as amended: such a launch failure propagates only when it is not an
\* OSError; an OSError with any other errno is returned as the diagnostic
\* 'command <cmd> failed'.
C5_OnlyNonOSErrorPropagates ==
    \A i \in DOMAIN execs :
        OtherLaunchFailure(execs[i]) =>
            IF execs[i].launch = "OSError"
            THEN ~execs[i].raised /\ execs[i].res = "command " \o ListStr(execs[i].cmd) \o " failed"
            ELSE execs[i].raised /\ execs[i].res = None

\* the configure step met EACCES and the build step a TypeError
C5_Witness ==
    /\ Len(execs) = 2
    /\ execs[1].launch = "OSError" /\ execs[1].errno = EACCES /\ execs[1].res # None
    /\ execs[2].launch = "TypeError" /\ execs[2].raised
    /\ pc = "raised"

\* C6: a launch that fails with 'not found' gives the CMake message with the
\* installation instructions when the first token is cmake, the message
\* '<first token> is not installed' otherwise, and never 'command ... failed'.
C6_ToolMissing ==
    \A i \in DOMAIN execs :
        (execs[i].launch = "OSError" /\ execs[i].errno = ENOENT) =>
            /\ ~execs[i].raised
            /\ ~StartsWith(execs[i].res, "command ")
            /\ IF execs[i].cmd[1] = "cmake"
               THEN /\ StartsWith(execs[i].res, "CMake is not installed")
                    /\ Contains(execs[i].res, "installation instructions at http://docs.yottabuild.org/#installing")
               ELSE execs[i].res = execs[i].cmd[1] \o " is not installed"

\* cmake was missing at the configure step and ninja at the build step
C6_Witness ==
    /\ Len(execs) = 2
    /\ execs[1].errno = ENOENT /\ execs[1].cmd[1] = "cmake"
    /\ execs[2].errno = ENOENT /\ execs[2].cmd[1] = "ninja"
    /\ diags = <<CMakeNotInstalled, "ninja is not installed">>

\* C7 as claimed: for a command that was launched, exec_helper returns None
\* exactly when the exit status is zero, and otherwise the diagnostic
\* 'command <cmd> failed' that holds the whole command as Python writes a
\* list, from its first token to its last.
C7_ExitStatus ==
    \A i \in DOMAIN execs :
        (execs[i].launch = "ok" /\ ~execs[i].raised) =>
            /\ (execs[i].res = None) <=> (execs[i].rc = <<0>>)
            /\ execs[i].rc # <<0>> =>
                 LET c == execs[i].cmd IN
                 /\ execs[i].res = "command " \o ListStr(c) \o " failed"
                 /\ StartsWith(execs[i].res, "command [" \o ReprStr(c[1]))
                 /\ EndsWith(execs[i].res, ReprStr(c[Len(c)]) \o "] failed")

\* C8: without a 'debug' entry debug yields one diagnostic and stops; nothing
\* is spawned, whatever the server entries and the program file.
C8_NoDebugEntry ==
    (op = "debug" /\ "debug" \notin description) =>
        /\ pc \in {"check", "nodebug_yield", "done", "closed"}
        /\ pc # "check" => diags = <<"Target " \o TargetStr \o " does not specify debug commands">>
        /\ \A p \in DOMAIN procs : procs[p] = "none"
        /\ events = <<>>
        /\ daemon = None /\ child = None

\* a description with debugServer but no debug, the program exists, and the
\* generator is exhausted
C8_Witness ==
    /\ op = "debug" /\ pc = "done"
    /\ description = {"debugServer", "debug-server"}
    /\ "/b/" \o args.program \in files
    /\ Len(diags) = 1

\* the diagnostic C9 calls for, from the program's name
MissingDiagByPriority(p) ==
    IF (EndsWith(p, ".c") \/ EndsWith(p, ".m")) /\ ("/b/" \o DropLast(p, 2)) \in files
    THEN p \o " does not exist, perhaps you meant " \o DropLast(p, 2)
    ELSE IF (EndsWith(p, ".cpp") \/ EndsWith(p, ".cxx")) /\ ("/b/" \o DropLast(p, 4)) \in files
    THEN p \o " does not exist, perhaps you meant " \o DropLast(p, 4)
    ELSE IF ("/b/source/" \o p) \in files
    THEN p \o " does not exist, perhaps you meant source/" \o p
    ELSE p \o " does not exist"

\* C9: for a missing program debug yields one 'does not exist' diagnostic and
\* stops; its suggestion is the name less a .c/.m suffix if that file exists,
\* else the name less a .cpp/.cxx suffix if that file exists, else
\* source/<program> if that exists, else none.
C9_MissingProgramSuggestion ==
    (op = "debug" /\ "debug" \in description /\ ("/b/" \o args.program) \notin files
        /\ pc # "check") =>
        /\ pc \in {"missing_yield", "done", "closed"}
        /\ diags = <<MissingDiagByPriority(args.program)>>
        /\ events = <<>>

\* app.cpp is missing, so is app, and source/app.cpp exists
C9_Witness ==
    /\ op = "debug" /\ pc = "missing_yield" /\ args.program = "app.cpp"
    /\ "/b/app" \notin files /\ "/b/source/app.cpp" \in files
    /\ diags = <<"app.cpp does not exist, perhaps you meant source/app.cpp">>

\* C10: a step of build changes build.ninja, or runs the patch, only when the
\* generator is Ninja and the host is Windows.
C10_PatchOnlyNinjaOnWindows ==
    [][(buildFile' # buildFile
           \/ (Len(events') > Len(events) /\ events'[Len(events')] = "patch"))
         => (args.cmake_generator = "Ninja" /\ osname = "nt")]_vars

\* a Ninja build on another host, with a backslash in build.ninja, whose
\* configure and build steps failed
C10_Witness ==
    /\ op = "build" /\ pc = "done"
    /\ args.cmake_generator = "Ninja" /\ osname = "posix"
    /\ buildFile = <<"\\", "a">>
    /\ Len(diags) = 2 /\ events = <<"configure", "build">>

\* ---------------------------------------------------------------- C11

SentinelFree(t) == \A i \in 1..Len(t) : t[i] # SOH

\* position i of t holds the backslash of an escaped double quote
EscapedQuoteAt(t, i) == t[i] = "\\" /\ i < Len(t) /\ t[i + 1] = "\""

\* what the claim says position i of the rewritten text holds
ExpectedChar(t, i) ==
    IF t[i] = "\\" /\ ~EscapedQuoteAt(t, i) THEN "/" ELSE t[i]

\* C11: when build.ninja holds no sentinel and the rewriting succeeds, the
\* text written has, position by position, the backslash and the quote of
\* every escaped double quote as they were, a slash for every other
\* backslash (one that stands just before an escaped quote included), and
\* every other character unchanged
C11_PatchCharwise ==
    (Len(fileHistory) >= 2 /\ ~patchFailed /\ SentinelFree(fileHistory[1]))
        => fileHistory[2] =
             [i \in 1..Len(fileHistory[1]) |-> ExpectedChar(fileHistory[1], i)]

\* a text with a backslash just before an escaped quote has been rewritten
C11_Witness ==
    /\ op = "patch"
    /\ Len(fileHistory) >= 2
    /\ fileHistory[1] = <<"\\", "\\", "\"", "a">>
    /\ fileHistory[2] = <<"/", "\\", "\"", "a">>

\* ---------------------------------------------------------------- C12

\* child.wait() has returned: the debugger has exited and has a status
Waited == procs.debugger = "exited"

\* a debug call whose description has 'debug' and no server key, for a
\* program that exists
DebuggerOnlySession ==
    op = "debug" /\ description = {"debug"} /\ isfile(prog_path(args.program))

\* C12: in a debug call whose description has 'debug' but neither server
\* key and whose program exists, no daemon is ever started or terminated,
\* the only process started is the debugger, with the substituted command
\* and the build directory as working directory, exactly one such process
\* has been started once the debugger has been waited for or the call is
\* done, and a call done after exit status 0 has yielded nothing
C12_DebuggerOnly ==
    DebuggerOnlySession =>
        /\ daemon = None /\ procs.daemon = "none" /\ termSent.daemon = 0
        /\ Len(popens) <= 1
        /\ \A i \in 1..Len(popens) :
             popens[i] = [who |-> "child",
                          cmd |-> <<"gdb", "/b/" \o args.program, "--cd=/h">>,
                          cwd |-> "/b"]
        /\ (Waited \/ pc = "done") => Len(popens) = 1
        /\ (pc = "done" /\ Waited /\ returncode = 0) => diags = <<>>

\* such a call is done after its debugger exited with status 0
C12_Witness ==
    /\ DebuggerOnlySession
    /\ pc = "done" /\ Waited /\ returncode = 0
    /\ Len(popens) = 1 /\ popens[1].who = "child"
    /\ diags = <<>>

\* ---------------------------------------------------------------- C13

\* C13 as claimed: debug issues the terminal reset only when an exception
\* ends a session in progress: never once the debugger has been waited for
\* (whatever its status, and whether the caller resumes or stops after the
\* status diagnostic), and never in a call that yielded a diagnostic
C13_ResetOnlyOnSessionException ==
    (op = "debug" /\ "reset" \in Range(events))
        => /\ ~Waited
           /\ diags = <<>>
           /\ exc \notin {None, "GeneratorExit"}

\* ---------------------------------------------------------------- C14

DaemonSpawns == {"spawn daemon debugServer", "spawn daemon debug-server"}

\* C14: in a debug call the start of the daemon, when there is one, comes
\* before the install of the ignoring SIGINT handler, and the install comes
\* before the spawn of the debugger; so whenever the debugger runs (spawned,
\* not waited for, not sent terminate) the handler is the ignoring one, and
\* the default handler is restored only when no debugger runs any more
C14_SigintIgnoredWhileDebuggerRuns ==
    op = "debug" =>
        /\ \A d \in DaemonSpawns :
             d \in Range(events) => Before(d, "signal _ignoreSignal")
        /\ \A d \in DaemonSpawns :
             d \in Range(events) => Before(d, "spawn debugger")
        /\ "spawn debugger" \in Range(events)
             => Before("signal _ignoreSignal", "spawn debugger")
        /\ procs.debugger = "running" => sigint = "_ignoreSignal"
        /\ "signal SIG_DFL" \in Range(events) => procs.debugger # "running"
        /\ ("signal _ignoreSignal" \in Range(events) /\ sigint # "_ignoreSignal")
             => (sigint = "SIG_DFL" /\ "signal SIG_DFL" \in Range(events))

\* the daemon and the debugger both run, started in the claimed order
C14_Witness ==
    /\ op = "debug"
    /\ procs.daemon = "running" /\ procs.debugger = "running"
    /\ sigint = "_ignoreSignal"
    /\ events = <<"spawn daemon debugServer", "signal _ignoreSignal", "spawn debugger">>

\* ---------------------------------------------------------------- C15

\* the call has ended and its cleanup is done: no daemon or debugger is left
\* running without having been sent terminate(), and SIGINT has its default
\* handler
DoneCleanedUp ==
    /\ Returned
    /\ procs.daemon # "running" /\ procs.debugger # "running"
    /\ sigint \in DefaultHandlers

\* C15 as claimed: from every state of a debug call, an exception raised
\* while the debugger runs included, the call eventually ends with its cleanup done,
\* provided the debugger exits or fails and the caller resumes or closes a
\* suspended generator
C15_EventuallyDoneCleanedUp == (op = "debug") ~> DoneCleanedUp

\* ---------------------------------------------------------------- C16

DaemonStarted == \E i \in 1..Len(popens) : popens[i].who = "daemon"

\* C16 as claimed: terminate() is sent to the debugger only through a handle
\* still referenced and never once the debugger has been waited for and has
\* exited, whatever its status; the daemon is never sent terminate() twice,
\* and a call that has ended has sent it terminate() once if it started the
\* daemon and not at all otherwise
C16_TerminateOnlyUnwaitedDebugger ==
    op = "debug" =>
        /\ termSent.debugger > 0 => child # None
        /\ Waited => termSent.debugger = 0
        /\ termSent.daemon <= 1
        /\ Returned => termSent.daemon = (IF DaemonStarted THEN 1 ELSE 0)

\* ---------------------------------------------------------------- C17

DaemonPopens == {i \in 1..Len(popens) : popens[i].who = "daemon"}
ChildPopens == {i \in 1..Len(popens) : popens[i].who = "child"}

\* C17: a debug call starts at most one daemon; the daemon it starts runs
\* the command of 'debugServer' when the description has that key (whether
\* or not it has 'debug-server' too) and the command of 'debug-server' when
\* it has only that one; it starts none when it has neither; the daemon is
\* started before the debugger, and a call that started its debugger with a
\* server key present has started the daemon
C17_DaemonResolvedOnce ==
    op = "debug" =>
        /\ Cardinality(DaemonPopens) <= 1
        /\ \A i \in DaemonPopens :
             /\ "debugServer" \in description
                  => popens[i].cmd = <<"pyocd-gdbserver">>
             /\ ("debugServer" \notin description /\ "debug-server" \in description)
                  => popens[i].cmd = <<"old-gdbserver">>
             /\ {"debugServer", "debug-server"} \cap description # {}
        /\ \A i \in DaemonPopens, j \in ChildPopens : i < j
        /\ (ChildPopens # {} /\ {"debugServer", "debug-server"} \cap description # {})
             => DaemonPopens # {}

\* both keys are present, and the daemon of 'debugServer' and then the
\* debugger have been started
C17_Witness ==
    /\ op = "debug"
    /\ description = {"debug", "debugServer", "debug-server"}
    /\ Len(popens) = 2
    /\ popens[1].who = "daemon" /\ popens[1].cmd = <<"pyocd-gdbserver">>
    /\ popens[2].who = "child"

\* ---------------------------------------------------------------- C18

\* C18 as claimed: during build at most one child started by the
\* orchestrator has not been waited for, and none has whenever build is
\* anywhere but inside an exec_helper's wait or left by the exception of a
\* wait (so a step's child has exited before the next step starts); during
\* debug at most two have not, of which at most one was started as daemon
\* and at most one as debugger
C18_LiveChildrenBounded ==
    /\ alive >= 0
    /\ op = "build" =>
         /\ alive <= 1
         /\ pc \notin DOMAIN StepOfWait \cup {"raised"} => alive = 0
    /\ op = "debug" =>
         /\ alive <= 2
         /\ Cardinality(DaemonPopens) <= 1
         /\ Cardinality(ChildPopens) <= 1
         /\ alive <= Len(popens)

\* ---------------------------------------------------------------- C19

\* C19: while debug is suspended at the yield of the status diagnostic, the
\* caller holds that diagnostic and no cleanup has run: nothing has been
\* sent terminate(), a daemon that was started still runs, the SIGINT
\* handler is the ignoring one, and `child` still references the debugger;
\* so the cleanup runs only once the caller resumes or closes the generator
C19_StatusDeliveredBeforeCleanup ==
    (op = "debug" /\ pc = "status_yield") =>
        /\ Waited /\ returncode # 0
        /\ diags = <<"debug process executed with status " \o ToString(returncode)>>
        /\ Range(events) \cap CleanupEvents = {}
        /\ termSent.daemon = 0 /\ termSent.debugger = 0
        /\ DaemonStarted => (daemon # None /\ procs.daemon = "running")
        /\ sigint = "_ignoreSignal"
        /\ child # None

\* debug is suspended with the status diagnostic delivered and its daemon
\* still running
C19_Witness ==
    /\ op = "debug" /\ pc = "status_yield"
    /\ diags = <<"debug process executed with status 1">>
    /\ procs.daemon = "running"
    /\ sigint = "_ignoreSignal" /\ child # None

\* ---------------------------------------------------------------- C20

\* C20: when build.ninja holds no sentinel and the rewriting succeeds, each
\* rewriting leaves a file of exactly the length of the original that holds
\* exactly the text written (nothing of the older text is left behind it),
\* and a second rewriting leaves the file as the first one left it
C20_PatchLengthAndIdempotent ==
    (~patchFailed /\ SentinelFree(fileHistory[1])) =>
        \A k \in 2..Len(fileHistory) :
            /\ Len(fileHistory[k]) = Len(fileHistory[1])
            /\ fileHistory[k] = NinjaPatch(fileHistory[k - 1])
            /\ Len(NinjaPatch(fileHistory[k - 1])) = Len(fileHistory[k - 1])
            /\ k >= 3 => fileHistory[k] = fileHistory[k - 1]

\* a text with backslashes and an escaped quote has been rewritten twice
C20_Witness ==
    /\ op = "patch" /\ pc = "rewritten"
    /\ fileHistory = << <<"a", "\\", "\\", "\"">>,
                        <<"a", "/", "\\", "\"">>,
                        <<"a", "/", "\\", "\"">> >>

====
